---- MODULE Spec2Model ----
(***************************************************************************)
(* The move search of src/chess.py: evaluate_board, order_moves, minimax   *)
(* (alpha-beta with the process-wide transposition_table) and              *)
(* find_best_move, run against a rules engine (python-chess) that is an    *)
(* external collaborator.  The collaborator is modelled by its answers: a  *)
(* table `rules` that gives, for every position (identified by its FEN),   *)
(* the side to move, piece_at, the checkmate / stalemate / insufficient-   *)
(* material / game-over predicates and the legal moves in enumeration      *)
(* order, each move with is_capture, gives_check and the position that     *)
(* push(move) leads to.                                                    *)
(***************************************************************************)
EXTENDS Integers, Sequences, FiniteSets, TLC

VARIABLES rules, board, transposition_table, frames, ret, best_move, call, op, main

vars == <<rules, board, transposition_table, frames, ret, best_move, call, op, main>>

(***************************************************************************)
(* Bounds of the model.                                                    *)
(***************************************************************************)
NumSquares == 5     \* squares of the board (chess.SQUARES has 64)
MaxDepth == 3       \* deepest search asked of find_best_move; plies of a game
MaxCalls == 2       \* find_best_move calls in one run of Spec

(***************************************************************************)
(* Values of the program.                                                  *)
(***************************************************************************)
Inf == 1000                      \* float('inf'): above every material sum
NegInf == -Inf                   \* float('-inf')
WHITE == "WHITE"
BLACK == "BLACK"
NONE == "NONE"                   \* Python's None (no piece, no promotion)
PieceTypes == {"PAWN", "KNIGHT", "BISHOP", "ROOK", "QUEEN", "KING"}
Squares == 1..NumSquares
NoPiece == [piece_type |-> NONE, color |-> NONE]
Piece(t, c) == [piece_type |-> t, color |-> c]
Pieces == {Piece(t, c) : t \in PieceTypes, c \in {WHITE, BLACK}}

piece_values ==
    [t \in PieceTypes |->
        CASE t = "PAWN" -> 1 [] t = "KNIGHT" -> 3 [] t = "BISHOP" -> 3
          [] t = "ROOK" -> 5 [] t = "QUEEN" -> 9 [] t = "KING" -> 0]

Max(a, b) == IF a >= b THEN a ELSE b
Min(a, b) == IF a <= b THEN a ELSE b
Other(c) == IF c = WHITE THEN BLACK ELSE WHITE

\* main's locals (lines 136-139); selected_square 0 is None.  `by` lists who
\* pushed each move of the game onto the board: "human" (line 160) or "ai"
\* (line 178).
NoMain == [running |-> FALSE, thinking |-> FALSE, selected_square |-> 0, by |-> <<>>]

NoMove ==
    [from_square |-> 0, to_square |-> 0, promotion |-> NONE,
     capture |-> FALSE, check |-> FALSE, to |-> -1]

(***************************************************************************)
(* The board object: the position it shows and its move stack.  `fens` is  *)
(* the base position followed by the position after each pushed move, so   *)
(* board.fen() is its last element and pop() drops it.                     *)
(***************************************************************************)
BoardAt(p) == [fens |-> <<p>>, move_stack |-> <<>>]
fen(b) == b.fens[Len(b.fens)]
turn(b) == rules[fen(b)].turn
piece_at(b, sq) == rules[fen(b)].pieces[sq]
is_checkmate(b) == rules[fen(b)].checkmate
is_stalemate(b) == rules[fen(b)].stalemate
is_insufficient_material(b) == rules[fen(b)].insufficient
is_game_over(b) == rules[fen(b)].over
legal_moves(b) == rules[fen(b)].legal
is_capture(b, move) == move.capture
gives_check(b, move) == move.check
push(b, move) ==
    [fens |-> Append(b.fens, move.to), move_stack |-> Append(b.move_stack, move)]
\* A search that forgets to undo the move.
pop_forgotten(b) == b
pop(b) ==
    [fens |-> SubSeq(b.fens, 1, Len(b.fens) - 1),
     move_stack |-> SubSeq(b.move_stack, 1, Len(b.move_stack) - 1)]

(***************************************************************************)
(* evaluate_board (lines 35-46): checkmate first, then the two draws, then *)
(* the loop over the squares that adds white and subtracts black values.   *)
(***************************************************************************)
RECURSIVE score_from(_, _, _)
score_from(b, sq, score) ==
    IF sq > NumSquares THEN score
    ELSE LET p == piece_at(b, sq)
             val == IF p # NoPiece THEN piece_values[p.piece_type] ELSE 0
         IN  score_from(b, sq + 1,
                 IF p # NoPiece
                 THEN (IF p.color = WHITE THEN score + val ELSE score - val)
                 ELSE score)

\* An evaluator with the two checkmate sentinels exchanged.
evaluate_board_swapped(b) ==
    IF is_checkmate(b)
    THEN (IF turn(b) = WHITE THEN Inf ELSE NegInf)
    ELSE IF is_stalemate(b) \/ is_insufficient_material(b)
         THEN 0
         ELSE score_from(b, 1, 0)

evaluate_board(b) ==
    IF is_checkmate(b)
    THEN (IF turn(b) = WHITE THEN NegInf ELSE Inf)
    ELSE IF is_stalemate(b) \/ is_insufficient_material(b)
         THEN 0
         ELSE score_from(b, 1, 0)

(***************************************************************************)
(* order_moves (lines 48-62): score_move, then sorted(..., reverse=True),  *)
(* which is stable: moves of equal score keep their enumeration order.     *)
(***************************************************************************)
score_move(b, move) ==
    LET victim == piece_at(b, move.to_square)
        attacker == piece_at(b, move.from_square)
        victim_val == IF victim # NoPiece THEN piece_values[victim.piece_type] ELSE 0
        attacker_val == IF attacker # NoPiece THEN piece_values[attacker.piece_type] ELSE 0
    IN  (IF is_capture(b, move) THEN 10 * victim_val - attacker_val ELSE 0)
      + (IF move.promotion # NONE THEN 8 ELSE 0)
      + (IF gives_check(b, move) THEN 5 ELSE 0)

\* An insertion that puts m before the moves of its own score: a sort that
\* is not stable.
RECURSIVE insert_sorted_unstable(_, _, _)
insert_sorted_unstable(b, s, m) ==
    IF s = <<>> THEN <<m>>
    ELSE IF score_move(b, Head(s)) > score_move(b, m)
         THEN <<Head(s)>> \o insert_sorted_unstable(b, Tail(s), m)
         ELSE <<m>> \o s

\* s is sorted by descending score; m goes after every move scoring >= it.
RECURSIVE insert_sorted(_, _, _)
insert_sorted(b, s, m) ==
    IF s = <<>> THEN <<m>>
    ELSE IF score_move(b, Head(s)) >= score_move(b, m)
         THEN <<Head(s)>> \o insert_sorted(b, Tail(s), m)
         ELSE <<m>> \o s

RECURSIVE sort_moves(_, _, _)
sort_moves(b, todo, done) ==
    IF todo = <<>> THEN done
    ELSE sort_moves(b, Tail(todo), insert_sorted(b, done, Head(todo)))

order_moves(b) == sort_moves(b, legal_moves(b), <<>>)

(***************************************************************************)
(* minimax (lines 64-95) and find_best_move (lines 97-110) as a machine    *)
(* with an explicit call stack.  A frame holds the locals of one call; the *)
(* top frame is the running call.  pc: "entry" (line 65), "loop" (at the   *)
(* head of the for loop), "wait" (a recursive call is running), "store"    *)
(* (past the loop, lines 82 / 94).  board0 records the board at the call.  *)
(***************************************************************************)
Top == frames[Len(frames)]
Caller == SubSeq(frames, 1, Len(frames) - 1)
SetTop(f) == [frames EXCEPT ![Len(frames)] = f]
Running(fn) == frames # <<>> /\ Top.fn = fn

\* A key that leaves the remaining depth out.
cache_key_no_depth(b, depth, maximizing_player) == <<fen(b), 0, maximizing_player>>

cache_key(b, depth, maximizing_player) == <<fen(b), depth, maximizing_player>>
\* A search that never finds a key in the table.
never_cached(table, key) == FALSE
cached(table, key) == key \in DOMAIN table
is_leaf(b, depth) == depth = 0 \/ is_game_over(b)
store(table, key, val) == (key :> val) @@ table
\* A pruning test that lets a closed window through.
cutoff_strict(alpha, beta) == beta < alpha

cutoff(alpha, beta) == beta <= alpha
\* A selector that also takes a move of equal value.
improves_or_equal(val, best_val) == val <= best_val
improves(val, best_val) == val < best_val

MinimaxFrame(b, depth, alpha, beta, maximizing_player) ==
    [fn |-> "minimax", pc |-> "entry", depth |-> depth, alpha |-> alpha,
     beta |-> beta, maximizing_player |-> maximizing_player,
     key |-> cache_key(b, depth, maximizing_player),
     moves |-> <<>>, i |-> 1, best |-> 0, board0 |-> b]

\* find_best_move(board, depth), lines 97-102: the locals and the ordered moves.
StartSearch(d) ==
    /\ frames = <<>>
    /\ frames' = <<[fn |-> "find_best_move", pc |-> "loop", depth |-> d,
                    alpha |-> NegInf, beta |-> Inf, maximizing_player |-> FALSE,
                    key |-> cache_key(board, d, FALSE),
                    moves |-> order_moves(board), i |-> 1, best |-> Inf,
                    board0 |-> board]>>
    /\ best_move' = NoMove
    /\ call' = [root |-> fen(board), board0 |-> board, depth |-> d,
                count |-> call.count + 1,
                fresh |-> DOMAIN transposition_table = {},
                keys0 |-> DOMAIN transposition_table, done |-> FALSE]
    /\ op' = "call"
    /\ UNCHANGED <<rules, board, transposition_table, ret>>

\* A call of find_best_move on the current board, at a depth the modelled
\* games are deep enough for.
FindBestMoveCall(d) ==
    /\ call.count < MaxCalls
    /\ d <= MaxDepth - rules[fen(board)].ply
    /\ StartSearch(d)
    /\ UNCHANGED main

\* lines 103-104: board.push(move); minimax(board, depth-1, alpha, beta, True)
FindBestMovePush ==
    /\ Running("find_best_move") /\ Top.pc = "loop" /\ Top.i <= Len(Top.moves)
    /\ LET b == push(board, Top.moves[Top.i])
       IN  /\ board' = b
           /\ frames' = Append(SetTop([Top EXCEPT !.pc = "wait"]),
                               MinimaxFrame(b, Top.depth - 1, Top.alpha, Top.beta, TRUE))
    /\ op' = "push"
    /\ UNCHANGED <<rules, transposition_table, ret, best_move, call, main>>

\* lines 105-109: board.pop(); keep the move if its value is lower.
FindBestMoveAfterChild ==
    /\ Running("find_best_move") /\ Top.pc = "wait"
    /\ board' = pop(board)
    /\ LET better == improves(ret, Top.best)
       IN  /\ frames' = SetTop([Top EXCEPT
                   !.pc = "loop", !.i = Top.i + 1,
                   !.best = IF better THEN ret ELSE Top.best,
                   !.beta = IF better THEN Min(Top.beta, ret) ELSE Top.beta])
           /\ best_move' = IF better THEN Top.moves[Top.i] ELSE best_move
    /\ op' = "pop"
    /\ UNCHANGED <<rules, transposition_table, ret, call, main>>

\* line 110: return best_move
FindBestMoveReturn ==
    /\ Running("find_best_move") /\ Top.pc = "loop" /\ Top.i > Len(Top.moves)
    /\ frames' = <<>>
    /\ call' = [call EXCEPT !.done = TRUE]
    /\ op' = "return"
    /\ UNCHANGED <<rules, board, transposition_table, ret, best_move, main>>

\* lines 65-67: the key is in the table: return the stored value.
MinimaxCacheHit ==
    /\ Running("minimax") /\ Top.pc = "entry"
    /\ cached(transposition_table, Top.key)
    /\ ret' = transposition_table[Top.key]
    /\ frames' = Caller
    /\ op' = "hit"
    /\ UNCHANGED <<rules, board, transposition_table, best_move, call, main>>

\* A minimax that tests depth and game-over before it looks the key up.
MinimaxLeafBeforeLookup ==
    /\ Running("minimax") /\ Top.pc = "entry"
    /\ is_leaf(board, Top.depth)
    /\ LET val == evaluate_board(board)
       IN  /\ transposition_table' = store(transposition_table, Top.key, val)
           /\ ret' = val
    /\ frames' = Caller
    /\ op' = "eval"
    /\ UNCHANGED <<rules, board, best_move, call, main>>

\* lines 68-71: depth 0 or game over: evaluate, store, return.
MinimaxLeaf ==
    /\ Running("minimax") /\ Top.pc = "entry"
    /\ ~cached(transposition_table, Top.key)
    /\ is_leaf(board, Top.depth)
    /\ LET val == evaluate_board(board)
       IN  /\ transposition_table' = store(transposition_table, Top.key, val)
           /\ ret' = val
    /\ frames' = Caller
    /\ op' = "eval"
    /\ UNCHANGED <<rules, board, best_move, call, main>>

\* lines 72-74 / 84-86: start the loop over order_moves(board).
MinimaxExpand ==
    /\ Running("minimax") /\ Top.pc = "entry"
    /\ ~cached(transposition_table, Top.key)
    /\ ~is_leaf(board, Top.depth)
    /\ frames' = SetTop([Top EXCEPT
            !.pc = "loop", !.moves = order_moves(board), !.i = 1,
            !.best = IF Top.maximizing_player THEN NegInf ELSE Inf])
    /\ op' = "expand"
    /\ UNCHANGED <<rules, board, transposition_table, ret, best_move, call, main>>

\* A recursion that hands the child the node's own depth.
MinimaxPushSameDepth ==
    /\ Running("minimax") /\ Top.pc = "loop" /\ Top.i <= Len(Top.moves)
    /\ LET b == push(board, Top.moves[Top.i])
       IN  /\ board' = b
           /\ frames' = Append(SetTop([Top EXCEPT !.pc = "wait"]),
                               MinimaxFrame(b, Top.depth, Top.alpha, Top.beta,
                                            ~Top.maximizing_player))
    /\ op' = "push"
    /\ UNCHANGED <<rules, transposition_table, ret, best_move, call, main>>

\* lines 75-76 / 87-88: board.push(move); minimax(board, depth-1, alpha, beta, not max)
MinimaxPush ==
    /\ Running("minimax") /\ Top.pc = "loop" /\ Top.i <= Len(Top.moves)
    /\ LET b == push(board, Top.moves[Top.i])
       IN  /\ board' = b
           /\ frames' = Append(SetTop([Top EXCEPT !.pc = "wait"]),
                               MinimaxFrame(b, Top.depth - 1, Top.alpha, Top.beta,
                                            ~Top.maximizing_player))
    /\ op' = "push"
    /\ UNCHANGED <<rules, transposition_table, ret, best_move, call, main>>

\* lines 77-81 / 89-93: board.pop(); fold the value in; break when beta <= alpha.
MinimaxAfterChild ==
    /\ Running("minimax") /\ Top.pc = "wait"
    /\ board' = pop(board)
    /\ LET val == ret
           best == IF Top.maximizing_player THEN Max(Top.best, val) ELSE Min(Top.best, val)
           alpha == IF Top.maximizing_player THEN Max(Top.alpha, val) ELSE Top.alpha
           beta == IF Top.maximizing_player THEN Top.beta ELSE Min(Top.beta, val)
       IN  frames' = SetTop([Top EXCEPT
               !.best = best, !.alpha = alpha, !.beta = beta,
               !.pc = IF cutoff(alpha, beta) THEN "store" ELSE "loop",
               !.i = Top.i + 1])
    /\ op' = "pop"
    /\ UNCHANGED <<rules, transposition_table, ret, best_move, call, main>>

\* A minimax that stores a node only when its loop ran to the end, and
\* returns the running best of a pruned node without storing it.
MinimaxStoreUnlessPruned ==
    /\ Running("minimax")
    /\ \/ /\ Top.pc = "store"
          /\ UNCHANGED transposition_table
       \/ /\ Top.pc = "loop" /\ Top.i > Len(Top.moves)
          /\ transposition_table' = store(transposition_table, Top.key, Top.best)
    /\ ret' = Top.best
    /\ frames' = Caller
    /\ op' = "store"
    /\ UNCHANGED <<rules, board, best_move, call, main>>

\* lines 82-83 / 94-95: store the running best under the key and return it.
MinimaxStore ==
    /\ Running("minimax")
    /\ \/ Top.pc = "store"
       \/ Top.pc = "loop" /\ Top.i > Len(Top.moves)
    /\ transposition_table' = store(transposition_table, Top.key, Top.best)
    /\ ret' = Top.best
    /\ frames' = Caller
    /\ op' = "store"
    /\ UNCHANGED <<rules, board, best_move, call, main>>

(***************************************************************************)
(* The games the search is run on.  A game is the collaborator's table for *)
(* a layered graph of positions: ply 0 holds the root (Black to move), ply *)
(* k holds Width positions, and a move at ply k leads to a position of ply *)
(* k+1 (the FEN fixes the ply through side to move and move number), so    *)
(* two move orders can meet in one position.  A position is checkmate,     *)
(* stalemate, or has moves to a non-empty set of positions of the next     *)
(* ply; the positions of ply MaxDepth are where the model's horizon ends   *)
(* and are only ever reached with depth 0.  Material: both kings, and the  *)
(* side not to move has a pawn on square 3 (odd slots, "P") or a queen on  *)
(* square 4 (even slots, "Q"); the root has either.  The move to slot s    *)
(* goes from the mover's king square to square 2+s, so it captures what    *)
(* stands there; it gives check when it mates.                             *)
(***************************************************************************)
Width == 2

Positions == 0..(MaxDepth * Width)
PosId(k, s) == IF k = 0 THEN 0 ELSE (k - 1) * Width + s
PlyOf(p) == IF p = 0 THEN 0 ELSE ((p - 1) \div Width) + 1
SlotOf(p) == IF p = 0 THEN 1 ELSE ((p - 1) % Width) + 1
TurnAt(k) == IF k % 2 = 0 THEN BLACK ELSE WHITE
PlyPositions(k) == {p \in Positions : PlyOf(p) = k}
MaterialAt(s) == IF s % 2 = 1 THEN "P" ELSE "Q"

Terminal(t, m) == [term |-> t, targets |-> {}, mk |-> m]
RootOptions ==
    {Terminal("mate", "P"), Terminal("stale", "P")}
    \cup {[term |-> "play", targets |-> T, mk |-> "P"] : T \in (SUBSET (1..Width)) \ {{}}}
    \cup {[term |-> "play", targets |-> T, mk |-> "Q"] :
            T \in {U \in SUBSET (1..Width) : Cardinality(U) > 1}}
OptionsAt(p) ==
    LET m == MaterialAt(SlotOf(p))
    IN  {Terminal("mate", m), Terminal("stale", m)}
        \cup IF PlyOf(p) = MaxDepth
             THEN {[term |-> "play", targets |-> {}, mk |-> m]}
             ELSE {[term |-> "play", targets |-> T, mk |-> m] :
                     T \in (SUBSET (1..Width)) \ {{}}}

\* The slots of ply k that some line of play from the root reaches.
Reached(c, k) == UNION {c[p].targets : p \in PlyPositions(k - 1)}

\* The choices for the plies up to k; a position no line of play reaches
\* carries no choice.
RECURSIVE ChoicesUpTo(_)
ChoicesUpTo(k) ==
    IF k = 0 THEN {(0 :> r) : r \in RootOptions}
    ELSE UNION {
           {c @@ f : f \in {g \in [PlyPositions(k) -> UNION {OptionsAt(p) : p \in PlyPositions(k)}] :
                              \A p \in PlyPositions(k) :
                                  /\ g[p] \in OptionsAt(p)
                                  /\ SlotOf(p) \notin Reached(c, k) =>
                                        g[p] = Terminal("mate", MaterialAt(SlotOf(p)))}}
           : c \in ChoicesUpTo(k - 1)}

RECURSIVE SortedSeq(_)
SortedSeq(S) ==
    IF S = {} THEN <<>>
    ELSE LET m == CHOOSE x \in S : \A y \in S : x <= y
         IN  <<m>> \o SortedSeq(S \ {m})

Placement(me, mk) ==
    [sq \in Squares |->
        CASE sq = 1 -> Piece("KING", WHITE)
          [] sq = 2 -> Piece("KING", BLACK)
          [] sq = 3 /\ mk = "P" -> Piece("PAWN", Other(me))
          [] sq = 4 /\ mk = "Q" -> Piece("QUEEN", Other(me))
          [] OTHER -> NoPiece]

PositionOf(c, p) ==
    LET k == PlyOf(p)
        o == c[p]
        me == TurnAt(k)
        pcs == Placement(me, o.mk)
        ts == SortedSeq(o.targets)
        dest(s) == IF 2 + s <= NumSquares THEN 2 + s ELSE 3
    IN  [ply |-> k, turn |-> me, pieces |-> pcs,
         checkmate |-> o.term = "mate", stalemate |-> o.term = "stale",
         insufficient |-> FALSE, over |-> o.term # "play",
         legal |-> [i \in 1..Len(ts) |->
                      [from_square |-> IF me = WHITE THEN 1 ELSE 2,
                       to_square |-> dest(ts[i]), promotion |-> NONE,
                       capture |-> pcs[dest(ts[i])] # NoPiece,
                       check |-> c[PosId(k + 1, ts[i])].term = "mate",
                       to |-> PosId(k + 1, ts[i])]]]

GameOf(c) == [p \in Positions |-> PositionOf(c, p)]

Init ==
    /\ rules \in {GameOf(c) : c \in ChoicesUpTo(MaxDepth)}
    /\ board = [fens |-> <<0>>, move_stack |-> <<>>]
    /\ transposition_table = <<>>
    /\ frames = <<>>
    /\ ret = 0
    /\ best_move = NoMove
    /\ call = [root |-> 0, board0 |-> BoardAt(0), depth |-> 0, count |-> 0,
                fresh |-> TRUE, keys0 |-> {}, done |-> FALSE]
    /\ op = "init"
    /\ main = NoMain

\* The steps of a search in progress.
Search ==
    \/ FindBestMovePush
    \/ FindBestMoveAfterChild
    \/ FindBestMoveReturn
    \/ MinimaxCacheHit
    \/ MinimaxLeaf
    \/ MinimaxExpand
    \/ MinimaxPush
    \/ MinimaxAfterChild
    \/ MinimaxStore

Next ==
    \/ \E d \in 1..MaxDepth : FindBestMoveCall(d)
    \/ Search

Spec == Init /\ [][Next]_vars

(***************************************************************************)
(* The reference the claims compare the search with: minimax with no       *)
(* pruning and no table, over the same ordered move lists.                 *)
(***************************************************************************)
Range(s) == {s[i] : i \in DOMAIN s}

RECURSIVE FullMinimax(_, _, _)
FullMinimax(b, depth, maximizing_player) ==
    IF depth = 0 \/ is_game_over(b) THEN evaluate_board(b)
    ELSE LET ms == order_moves(b)
             vals == {FullMinimax(push(b, ms[i]), depth - 1, ~maximizing_player) :
                        i \in DOMAIN ms}
         IN  IF maximizing_player
             THEN CHOOSE v \in vals \cup {NegInf} : \A w \in vals : v >= w
             ELSE CHOOSE v \in vals \cup {Inf} : \A w \in vals : v <= w

\* The first move, in order_moves order, whose full value is the lowest.
FullBestMove(b, depth) ==
    LET ms == order_moves(b)
        val(i) == FullMinimax(push(b, ms[i]), depth - 1, TRUE)
    IN  IF ms = <<>> THEN NoMove
        ELSE ms[CHOOSE i \in DOMAIN ms :
                   /\ \A j \in DOMAIN ms : val(i) <= val(j)
                   /\ \A j \in 1..(i - 1) : val(j) > val(i)]

Returned == frames = <<>> /\ call.done

\* C1: with Black to move and an empty table at the call, find_best_move
\* returns the move full minimax (no pruning, no table) selects at that depth.
C1_PruningSoundness ==
    (Returned /\ call.fresh /\ rules[call.root].turn = BLACK)
        => best_move = FullBestMove(BoardAt(call.root), call.depth)

\* C2: find_best_move returns None exactly when the root has no legal move,
\* and otherwise a legal move of the root.
C2_NoneIffNoLegalMoves ==
    Returned =>
        /\ (best_move = NoMove) <=> (rules[call.root].legal = <<>>)
        /\ rules[call.root].legal # <<>> => best_move \in Range(rules[call.root].legal)

\* C4: every stored value is the exact full-minimax value of its key.
C4_StoredValuesExact ==
    \A key \in DOMAIN transposition_table :
        transposition_table[key] = FullMinimax(BoardAt(key[1]), key[2], key[3])

\* C8: when some legal move of Black mates at once, the returned move mates
\* at once (its child evaluates to -infinity at depth 0).
C8_MateInOne ==
    (/\ Returned /\ rules[call.root].turn = BLACK
     /\ \E m \in Range(rules[call.root].legal) : rules[m.to].checkmate)
        => /\ best_move # NoMove
           /\ evaluate_board(BoardAt(best_move.to)) = NegInf

\* The first move, in order_moves order, whose child evaluates lowest.
FirstLowestChild(b) ==
    LET ms == order_moves(b)
        val(i) == evaluate_board(push(b, ms[i]))
    IN  ms[CHOOSE i \in DOMAIN ms :
               /\ \A j \in DOMAIN ms : val(i) <= val(j)
               /\ \A j \in 1..(i - 1) : val(j) > val(i)]

\* C9: at depth 1, with Black to move and a legal move, find_best_move
\* returns the legal move whose resulting position has the lowest
\* evaluate_board score, the earliest in order_moves among equals.
C9_DepthOneSelection ==
    (/\ Returned /\ call.depth = 1 /\ rules[call.root].turn = BLACK
     /\ rules[call.root].legal # <<>>)
        => best_move = FirstLowestChild(call.board0)

C9_Witness ==
    /\ Returned /\ call.depth = 1 /\ rules[call.root].turn = BLACK
    /\ Len(rules[call.root].legal) > 1
    /\ best_move = order_moves(call.board0)[2]
    /\ \A m \in Range(rules[call.root].legal) : evaluate_board(BoardAt(m.to)) < Inf

\* C3: a running call sees the board it was called with whenever it is not
\* waiting for a callee, the moves pushed and not yet popped are as many as
\* the calls below find_best_move, and the board is back at its state of
\* the call when find_best_move has returned.
C3_ApplyUndoSymmetry ==
    LET base == Len(call.board0.move_stack)
    IN  /\ (frames # <<>> /\ Top.pc # "wait") =>
              /\ board = Top.board0
              /\ Len(board.move_stack) = base + Len(frames) - 1
        /\ (frames # <<>> /\ Top.pc = "wait") =>
              Len(board.move_stack) = base + Len(frames)
        /\ Returned => board = call.board0

C3_Witness ==
    /\ Running("minimax") /\ Top.pc = "store" /\ Len(frames) = MaxDepth
    /\ board = Top.board0

\* C5: a minimax call whose key is in the table returns the stored value
\* and does nothing else: no push, no pop, no call, no evaluation, no write.
C5_CacheHitShortCircuit ==
    [][(Running("minimax") /\ Top.pc = "entry"
            /\ Top.key \in DOMAIN transposition_table)
         => /\ op' = "hit"
            /\ ret' = transposition_table[Top.key]
            /\ frames' = Caller
            /\ board' = board
            /\ transposition_table' = transposition_table]_vars

C5_Witness ==
    /\ op = "hit" /\ frames # <<>>
    /\ Top.depth = 1 /\ is_game_over(board)

\* C6: the lookup comes before the depth / game-over test, and whenever a
\* minimax call returns v the table maps the call's key to v.
C6_ConsultFirstStoreLast ==
    [][/\ (Running("minimax") /\ Top.pc = "entry"
              /\ Top.key \in DOMAIN transposition_table
              /\ (Top.depth = 0 \/ is_game_over(board)))
          => op' = "hit"
       /\ (Running("minimax") /\ frames' = Caller)
          => /\ Top.key \in DOMAIN transposition_table'
             /\ transposition_table'[Top.key] = ret']_vars

\* A node cut off by pruning, with moves left unexamined, about to return.
C6_Witness ==
    /\ Running("minimax") /\ Top.pc = "store" /\ Top.i <= Len(Top.moves)

\* C7: the table only grows: a key once present stays with its value, and
\* every write is to a key that was absent.
C7_TableAppendOnly ==
    [][/\ \A key \in DOMAIN transposition_table :
              /\ key \in DOMAIN transposition_table'
              /\ transposition_table'[key] = transposition_table[key]
       /\ op' \in {"eval", "store"} =>
              /\ Top.key \notin DOMAIN transposition_table
              /\ DOMAIN transposition_table' = DOMAIN transposition_table \cup {Top.key}]_vars

\* A second find_best_move call has added to the table of the first.
C7_Witness ==
    /\ Returned /\ call.count = 2 /\ ~call.fresh
    /\ \E key \in DOMAIN transposition_table : key[2] = call.depth - 1
    /\ \E key \in DOMAIN transposition_table : key[2] > call.depth - 1

(***************************************************************************)
(* evaluate_board on its own: one position with both kings and any other   *)
(* pieces on the remaining squares, either side to move, and the           *)
(* collaborator's verdicts.  A checkmate is neither a stalemate nor a      *)
(* position of insufficient material, and material is insufficient only    *)
(* when no pawn, rook or queen is on the board.                            *)
(***************************************************************************)
EvalPlacements ==
    {pcs \in [Squares -> Pieces \cup {NoPiece}] :
        /\ pcs[1] = Piece("KING", WHITE) /\ pcs[2] = Piece("KING", BLACK)
        /\ \A sq \in Squares \ {1, 2} : pcs[sq].piece_type # "KING"}

EvalPositions ==
    {[ply |-> 0, turn |-> t, pieces |-> pcs,
      checkmate |-> st = "mate", stalemate |-> st = "stale", insufficient |-> ins,
      over |-> (st # "play" \/ ins), legal |-> <<>>] :
        t \in {WHITE, BLACK}, pcs \in EvalPlacements,
        st \in {"play", "mate", "stale"}, ins \in BOOLEAN}

EvalRules ==
    {(0 :> pos) : pos \in
        {q \in EvalPositions :
            q.insufficient =>
                /\ ~q.checkmate
                /\ \A sq \in Squares : q.pieces[sq].piece_type \notin {"PAWN", "ROOK", "QUEEN"}}}

InitEval ==
    /\ rules \in EvalRules
    /\ board = BoardAt(0)
    /\ transposition_table = <<>>
    /\ frames = <<>>
    /\ ret = 0
    /\ best_move = NoMove
    /\ call = [root |-> 0, board0 |-> BoardAt(0), depth |-> 0, count |-> 0,
               fresh |-> TRUE, keys0 |-> {}, done |-> FALSE]
    /\ op = "init"
    /\ main = NoMain

\* An evaluator call that memoises its result in the transposition table.
EvaluateBoardCaching ==
    /\ frames = <<>>
    /\ ret' = evaluate_board(board)
    /\ transposition_table' =
           store(transposition_table, cache_key(board, 0, TRUE), evaluate_board(board))
    /\ op' = "evaluate"
    /\ UNCHANGED <<rules, board, frames, best_move, call, main>>

\* val = evaluate_board(board), as at line 69
EvaluateBoard ==
    /\ frames = <<>>
    /\ ret' = evaluate_board(board)
    /\ op' = "evaluate"
    /\ UNCHANGED <<rules, board, transposition_table, frames, best_move, call, main>>

NextEval == EvaluateBoard

SpecEval == InitEval /\ [][NextEval]_vars

\* The material balance, counted per piece type with the values the spec
\* gives: white pieces count for, black pieces against.
CountOf(b, t, c) == Cardinality({sq \in Squares : piece_at(b, sq) = Piece(t, c)})
Balance(b, t) == CountOf(b, t, WHITE) - CountOf(b, t, BLACK)
MaterialBalance(b) ==
    1 * Balance(b, "PAWN") + 3 * Balance(b, "KNIGHT") + 3 * Balance(b, "BISHOP")
      + 5 * Balance(b, "ROOK") + 9 * Balance(b, "QUEEN") + 0 * Balance(b, "KING")

\* C10: evaluate_board returns -infinity / +infinity for a checkmate with
\* White / Black to move, else 0 for a stalemate or insufficient material,
\* else the material balance.
C10_EvaluateBoard ==
    op = "evaluate" =>
        ret = IF rules[fen(board)].checkmate
              THEN (IF rules[fen(board)].turn = WHITE THEN NegInf ELSE Inf)
              ELSE IF rules[fen(board)].stalemate \/ rules[fen(board)].insufficient
                   THEN 0
                   ELSE MaterialBalance(board)

C10_Witness ==
    /\ op = "evaluate"
    /\ ~rules[fen(board)].checkmate /\ ~rules[fen(board)].stalemate
    /\ ~rules[fen(board)].insufficient
    /\ ret = 9 - 3

(***************************************************************************)
(* order_moves and score_move on their own: one position whose legal moves *)
(* are a short list of distinct moves, quiet moves, captures, en passant   *)
(* captures (the captured pawn is not on the destination square),          *)
(* promotions and checks among them.                                       *)
(***************************************************************************)
MaxMoves == 3       \* legal moves of the position handed to order_moves

OrderPlacements ==
    {pcs \in [Squares -> {NoPiece, Piece("PAWN", WHITE), Piece("PAWN", BLACK),
                          Piece("QUEEN", WHITE), Piece("QUEEN", BLACK),
                          Piece("KING", WHITE), Piece("KING", BLACK)}] :
        /\ pcs[1] = Piece("KING", WHITE) /\ pcs[2] = Piece("KING", BLACK)
        /\ \A sq \in Squares \ {1, 2} : pcs[sq].piece_type # "KING"}

\* The moves the rules engine can report for the side t on the placement
\* pcs, with its answers to is_capture, is_en_passant and gives_check.
MovesOn(pcs, t) ==
    {m \in [from_square : Squares, to_square : Squares, promotion : {NONE, "QUEEN"},
            capture : BOOLEAN, check : BOOLEAN, ep : BOOLEAN, to : {0}] :
        /\ pcs[m.from_square].color = t
        /\ m.to_square # m.from_square
        /\ pcs[m.to_square].color # t
        /\ pcs[m.to_square].piece_type # "KING"
        /\ m.promotion # NONE => pcs[m.from_square].piece_type = "PAWN"
        /\ m.ep =>
            /\ pcs[m.from_square].piece_type = "PAWN"
            /\ pcs[m.to_square] = NoPiece
            /\ m.promotion = NONE
            /\ \E sq \in Squares \ {m.from_square, m.to_square} :
                   pcs[sq] = Piece("PAWN", Other(t))
        /\ m.capture = (pcs[m.to_square] # NoPiece \/ m.ep)}

\* chess.Move is identified by from_square, to_square and promotion.
SameMove(m, n) ==
    /\ m.from_square = n.from_square
    /\ m.to_square = n.to_square
    /\ m.promotion = n.promotion

MoveLists(pcs, t) ==
    {l \in UNION {[1..n -> MovesOn(pcs, t)] : n \in 1..MaxMoves} :
        \A i, j \in DOMAIN l : i # j => ~SameMove(l[i], l[j])}

InitOrder ==
    /\ \E pcs \in OrderPlacements, t \in {WHITE, BLACK} :
         \E l \in MoveLists(pcs, t) :
            rules = (0 :> [ply |-> 0, turn |-> t, pieces |-> pcs,
                           checkmate |-> FALSE, stalemate |-> FALSE,
                           insufficient |-> FALSE, over |-> FALSE, legal |-> l])
    /\ board = BoardAt(0)
    /\ transposition_table = <<>>
    /\ frames = <<>>
    /\ ret = 0
    /\ best_move = NoMove
    /\ call = [root |-> 0, board0 |-> BoardAt(0), depth |-> 0, count |-> 0,
               fresh |-> TRUE, keys0 |-> {}, done |-> FALSE]
    /\ op = "init"
    /\ main = NoMain

\* moves = order_moves(board), as at lines 79 and 101
OrderMoves ==
    /\ frames = <<>>
    /\ ret' = order_moves(board)
    /\ op' = "order"
    /\ UNCHANGED <<rules, board, transposition_table, frames, best_move, call, main>>

\* score_move(move) for the i-th legal move, lines 49-60; ret holds the move
\* with the score returned for it.
ScoreMove(i) ==
    /\ frames = <<>>
    /\ i \in 1..Len(legal_moves(board))
    /\ ret' = [move |-> legal_moves(board)[i],
               score |-> score_move(board, legal_moves(board)[i])]
    /\ op' = "score"
    /\ UNCHANGED <<rules, board, transposition_table, frames, best_move, call, main>>

NextOrder ==
    \/ OrderMoves
    \/ \E i \in 1..MaxMoves : ScoreMove(i)
    \/ EvaluateBoard

SpecOrder == InitOrder /\ [][NextOrder]_vars

IndexIn(l, m) == CHOOSE i \in DOMAIN l : l[i] = m

\* C11: order_moves returns a permutation of exactly the legal moves, in
\* non-increasing order of heuristic score; moves of equal score keep the
\* order in which the rules engine enumerates them.
C11_OrderMovesStablePermutation ==
    op = "order" =>
        LET l == legal_moves(board)
        IN  /\ Len(ret) = Len(l)
            /\ \A i \in DOMAIN l : \E j \in DOMAIN ret : ret[j] = l[i]
            /\ \A i, j \in DOMAIN ret :
                 i < j =>
                    /\ score_move(board, ret[i]) >= score_move(board, ret[j])
                    /\ score_move(board, ret[i]) = score_move(board, ret[j])
                         => IndexIn(l, ret[i]) < IndexIn(l, ret[j])

\* The move that was enumerated last scores highest and comes back first, and
\* the two moves of equal score behind it come back in enumeration order.
C11_Witness ==
    /\ op = "order"
    /\ Len(ret) = 3
    /\ ret = <<legal_moves(board)[3], legal_moves(board)[1], legal_moves(board)[2]>>
    /\ score_move(board, ret[1]) > score_move(board, ret[2])
    /\ score_move(board, ret[2]) = score_move(board, ret[3])

\* The piece a capturing move takes off the board: the piece on the
\* destination square, or for an en passant capture the enemy pawn, which
\* stands beside the destination.
CapturedPiece(b, move) ==
    IF move.ep THEN Piece("PAWN", Other(turn(b))) ELSE piece_at(b, move.to_square)

CaptureBonus(b, move) ==
    IF move.capture
    THEN 10 * piece_values[CapturedPiece(b, move).piece_type]
           - piece_values[piece_at(b, move.from_square).piece_type]
    ELSE 0

\* C12: the capture component of score_move is 10 x value(captured piece) -
\* value(moving piece) for every capturing move, en passant captures
\* included, and 0 for every other move: the score is that bonus plus 8 for
\* a promotion plus 5 for a check.
C12_CaptureBonus ==
    op = "score" =>
        ret.score = CaptureBonus(board, ret.move)
                      + (IF ret.move.promotion # NONE THEN 8 ELSE 0)
                      + (IF ret.move.check THEN 5 ELSE 0)

CollaboratorRaises ==
    /\ Running("minimax") /\ Top.pc = "entry"
    /\ frames' = <<>>
    /\ op' = "raise"
    /\ UNCHANGED <<rules, board, transposition_table, ret, best_move, call, main>>

NextFail ==
    \/ op # "raise" /\ \E d \in 1..MaxDepth : FindBestMoveCall(d)
    \/ Search
    \/ CollaboratorRaises

SpecFail == Init /\ [][NextFail]_vars

\* C14: when a minimax call beneath an applied move fails instead of
\* returning, every move applied on the recursion path is undone before the
\* failure leaves find_best_move: its caller sees the board of before the
\* call.
C14_UndoOnFailure ==
    op = "raise" => board = call.board0

(***************************************************************************)
(* One find_best_move call run to its end: the interpreter keeps executing *)
(* the running call, so a step that is possible is eventually taken.       *)
(***************************************************************************)
FirstCall == \E d \in 1..MaxDepth : call.count = 0 /\ FindBestMoveCall(d)

NextOnce ==
    \/ FirstCall
    \/ Search

SpecOnce == Init /\ [][NextOnce]_vars /\ WF_vars(Search)

\* The moves applied on top of the position find_best_move was called on.
Applied == Len(board.move_stack) - Len(call.board0.move_stack)

DepthDiscipline ==
    /\ \A j \in DOMAIN frames :
          /\ frames[j].depth >= 0
          /\ j > 1 =>
               /\ frames[j].depth = frames[j - 1].depth - 1
               /\ frames[j].maximizing_player = ~frames[j - 1].maximizing_player
    /\ frames # <<>> =>
          /\ frames[1].depth = call.depth
          /\ Applied <= call.depth
          /\ Applied \in {Len(frames) - 1, Len(frames)}

\* C15: for every depth >= 1 a find_best_move call terminates; minimax is
\* never entered with a negative depth, every recursive call gets exactly
\* the caller's depth - 1 and the inverted maximizing flag, and never more
\* than `depth` moves are applied on top of the root position.
C15_DepthLimitedTermination ==
    /\ []DepthDiscipline
    /\ (frames # <<>>) ~> (frames = <<>> /\ call.done)

\* The search stands at its horizon: depth 0, `depth` moves applied.
C15_Witness ==
    /\ Running("minimax")
    /\ Top.depth = 0
    /\ call.depth = MaxDepth
    /\ Applied = MaxDepth

\* C16: inside a minimax node alpha never decreases and beta never
\* increases; only the node's own fold of a returned value (max / min after
\* the pop) changes them, never a step of a call beneath it; and once
\* beta <= alpha holds after a child, the node applies no further move: its
\* next step stores the running best under its key and returns it.
C16_WindowDiscipline ==
    [][/\ \A j \in DOMAIN frames \cap DOMAIN frames' :
             frames[j].fn = "minimax" =>
                /\ frames'[j].alpha >= frames[j].alpha
                /\ frames'[j].beta <= frames[j].beta
                /\ (j < Len(frames) \/ op' # "pop") =>
                      /\ frames'[j].alpha = frames[j].alpha
                      /\ frames'[j].beta = frames[j].beta
       /\ (/\ Running("minimax") /\ Top.pc \in {"loop", "store"}
           /\ Top.i > 1 /\ Top.beta <= Top.alpha) =>
             /\ op' = "store"
             /\ board' = board
             /\ frames' = Caller
             /\ ret' = Top.best
             /\ Top.key \in DOMAIN transposition_table'
             /\ transposition_table'[Top.key] = Top.best]_vars

\* A node whose window closed after a child while it still had moves left,
\* with alpha raised above the value it was called with.
C16_Witness ==
    /\ Running("minimax")
    /\ Top.pc = "store"
    /\ Top.i <= Len(Top.moves)
    /\ Top.beta <= Top.alpha
    /\ Top.maximizing_player
    /\ Top.alpha > NegInf
    /\ Top.alpha = Top.best

(***************************************************************************)
(* main (lines 131-201): the human plays White by clicking a square to     *)
(* select a piece and a square to move it to, the engine answers for Black *)
(* with find_best_move at a fixed depth.  A game starts from an opening    *)
(* position with White to move, whose one move leads to the root of a game *)
(* of the family above, and is over after at most MaxDepth further plies.  *)
(***************************************************************************)
MainDepth == 3      \* find_best_move(board, depth=5) at line 176

StartPos == MaxDepth * Width + 1

Opening(c) ==
    [ply |-> -1, turn |-> WHITE, pieces |-> Placement(WHITE, "none"),
     checkmate |-> FALSE, stalemate |-> FALSE, insufficient |-> FALSE, over |-> FALSE,
     legal |-> <<[from_square |-> 1, to_square |-> 3, promotion |-> NONE,
                  capture |-> FALSE, check |-> c[0].term = "mate", to |-> 0]>>]

MainGameOf(c) == (StartPos :> Opening(c)) @@ GameOf(c)

\* A white piece stands on the square (line 153).
selectable_any(b, sq) == piece_at(b, sq) # NoPiece
selectable(b, sq) == piece_at(b, sq) # NoPiece /\ piece_at(b, sq).color = WHITE

\* The legal moves equal to chess.Move(from_square, to_square) (line 157).
Matching(b, from_square, to_square) ==
    {i \in DOMAIN legal_moves(b) :
        /\ legal_moves(b)[i].from_square = from_square
        /\ legal_moves(b)[i].to_square = to_square
        /\ legal_moves(b)[i].promotion = NONE}

InitMain ==
    /\ rules \in {MainGameOf(c) : c \in {d \in ChoicesUpTo(MaxDepth) :
                     \A p \in PlyPositions(MaxDepth) : d[p].term # "play"}}
    /\ board = BoardAt(StartPos)
    /\ transposition_table = <<>>
    /\ frames = <<>>
    /\ ret = 0
    /\ best_move = NoMove
    /\ call = [root |-> StartPos, board0 |-> BoardAt(StartPos), depth |-> 0, count |-> 0,
               fresh |-> TRUE, keys0 |-> {}, done |-> FALSE]
    /\ op = "init"
    /\ main = [running |-> TRUE, thinking |-> FALSE, selected_square |-> 0, by |-> <<>>]

\* lines 143-144: QUIT
Quit ==
    /\ main.running /\ frames = <<>> /\ op # "return"
    /\ main' = [main EXCEPT !.running = FALSE]
    /\ op' = "quit"
    /\ UNCHANGED <<rules, board, transposition_table, frames, ret, best_move, call>>

\* lines 145-173: MOUSEBUTTONDOWN on square sq while not thinking
Click(sq) ==
    /\ main.running /\ ~main.thinking /\ frames = <<>>
    /\ IF main.selected_square = 0
       THEN /\ main' = [main EXCEPT !.selected_square =
                           IF selectable(board, sq) THEN sq ELSE 0]
            /\ UNCHANGED board
       ELSE LET hits == Matching(board, main.selected_square, sq)
            IN  IF hits # {}
                THEN LET b == push(board, legal_moves(board)[CHOOSE i \in hits : TRUE])
                     IN  /\ board' = b
                         /\ main' = [running |-> ~is_game_over(b),
                                     thinking |-> ~is_game_over(b),
                                     selected_square |-> 0,
                                     by |-> Append(main.by, "human")]
                ELSE /\ main' = [main EXCEPT !.selected_square = 0]
                     /\ UNCHANGED board
    /\ op' = "click"
    /\ UNCHANGED <<rules, transposition_table, frames, ret, best_move, call>>

\* lines 175-176: if thinking: find_best_move(board, depth=5)
MainThink ==
    /\ main.thinking /\ op # "return"
    /\ StartSearch(MainDepth)
    /\ UNCHANGED main

\* lines 177-186: push the move returned, if any; thinking = False; stop the
\* loop when the game is over.
MainReply ==
    /\ main.thinking /\ frames = <<>> /\ op = "return"
    /\ LET b == IF best_move # NoMove THEN push(board, best_move) ELSE board
       IN  /\ board' = b
           /\ main' = [main EXCEPT
                  !.thinking = FALSE,
                  !.running = main.running /\ ~is_game_over(b),
                  !.by = IF best_move # NoMove THEN Append(main.by, "ai") ELSE main.by]
    /\ op' = "reply"
    /\ UNCHANGED <<rules, transposition_table, frames, ret, best_move, call>>

NextMain ==
    \/ Quit
    \/ \E sq \in Squares : Click(sq)
    \/ MainThink
    \/ MainReply
    \/ Search

SpecMain == InitMain /\ [][NextMain]_vars

\* The side that made the i-th move of the game, and who pushed it.
MoverOf(i) == rules[board.fens[i]].turn
PushedBy(i) == IF i % 2 = 1 THEN "human" ELSE "ai"

\* C17: main calls find_best_move only with Black to move and the game not
\* over; a move pushed by the click handler is a legal move of a White piece
\* made on White's turn; and the moves on the board alternate White (human),
\* Black (engine).
C17_TurnsAlternate ==
    /\ frames # <<>> => turn(call.board0) = BLACK /\ ~is_game_over(call.board0)
    /\ (main.thinking /\ frames = <<>>) => turn(board) = BLACK /\ ~is_game_over(board)
    /\ frames = <<>> =>
          /\ Len(main.by) = Len(board.move_stack)
          /\ \A i \in DOMAIN main.by :
                /\ main.by[i] = PushedBy(i)
                /\ MoverOf(i) = IF main.by[i] = "human" THEN WHITE ELSE BLACK
                /\ \E j \in DOMAIN rules[board.fens[i]].legal :
                      rules[board.fens[i]].legal[j] = board.move_stack[i]
                /\ rules[board.fens[i]].pieces[board.move_stack[i].from_square].color
                      = MoverOf(i)

\* Human, engine, human: three moves on the board.
C17_Witness ==
    /\ frames = <<>>
    /\ main.by = <<"human", "ai", "human">>
    /\ Len(board.move_stack) = 3

\* The human has a move the click handler accepts: a legal move of a White
\* piece without promotion.
HumanCanMove ==
    \E sq \in Squares, to_square \in Squares :
        selectable(board, sq) /\ Matching(board, sq, to_square) # {}

\* C18: whenever the main loop is running and waits for the human (thinking
\* is False), it is White's turn, the game is not over and the human has a
\* legal move: the loop is never stuck with the game unfinished.
C18_HumanCanAlwaysMove ==
    (main.running /\ ~main.thinking /\ frames = <<>>) =>
        /\ turn(board) = WHITE
        /\ ~is_game_over(board)
        /\ HumanCanMove

\* C19: a cache hit during a find_best_move call of main is never on an
\* entry that was in the table when the call started: every hit comes from
\* an entry written during the same search.
C19_NoHitAcrossSearches ==
    [][op' = "hit" => Top.key \notin call.keys0]_vars

\* The second search of a game evaluates a position that the first search
\* stored, at another remaining depth, without hitting that entry.
C19_Witness ==
    /\ op = "eval"
    /\ call.count = 2
    /\ \E k \in call.keys0, n \in (DOMAIN transposition_table) \ call.keys0 :
          /\ k[1] = fen(board) /\ n[1] = fen(board)
          /\ k[3] = n[3]
          /\ k[2] # n[2]

====
